---- MODULE Spec2Model ----
(***************************************************************************)
(* MegaHash: a 16-way digest trie of depth 8 whose leaves are linked       *)
(* bucket lists (src/MegaHash.h).  The header gives the data layout, the   *)
(* constructors, init(), the bucket blob accessors and digestKey(); the    *)
(* bodies of store / fetch / remove / firstKey / nextKey / clear /         *)
(* clearTag / reindexBucket / traverseTag are only declared there and are  *)
(* modelled from spec.md sections 4.2 - 4.7.                               *)
(***************************************************************************)
EXTENDS Integers, Sequences, FiniteSets, TLC

VARIABLES index, stats, maxBuckets, reindexScatter, bigEndian, resp, last,
          digestOut, walk

vars == <<index, stats, maxBuckets, reindexScatter, bigEndian, resp, last,
          digestOut, walk>>

(***************************************************************************)
(* Bounds of the model.                                                    *)
(***************************************************************************)
NumKeys == 4

(***************************************************************************)
(* Program constants.                                                      *)
(***************************************************************************)
BH_KLEN_SIZE == 2
BH_LEN_SIZE == 4
BH_DIGEST_SIZE == 8
BH_INDEX_SIZE == 16
BH_ERR == 0
BH_OK == 1
BH_ADD == 1
BH_REPLACE == 2
BH_SIG_INDEX == "I"
BH_SIG_BUCKET == "B"
\* sizeof(Index): the type byte padded to a pointer, plus 16 pointers (LP64)
SizeofIndex == 136
\* sizeof(Bucket): "currently this is 24 bytes"
SizeofBucket == 24
\* number of values of BH_KLEN_T (uint16_t) and of one byte
KLEN_MOD == 65536
BYTE_MOD == 256

\* the null pointer, as a Tag* and as an unsigned char*
NULL == [type |-> "0"]
NULLPTR == <<>>
\* a non-null unsigned char* is modelled by the bytes it points at
PtrTo(bytes) == <<bytes>>

(***************************************************************************)
(* Byte-level helpers for the native integer fields of the bucket blob.    *)
(***************************************************************************)
RECURSIVE Pow256(_)
Pow256(i) == IF i = 0 THEN 1 ELSE BYTE_MOD * Pow256(i - 1)

\* the size bytes of n, least significant first
LEBytes(n, size) == [i \in 1..size |-> (n \div Pow256(i - 1)) % BYTE_MOD]

Reverse(s) == [i \in 1..Len(s) |-> s[Len(s) + 1 - i]]

\* the object representation of an unsigned integer of `size` bytes
NativeBytes(n, size) == IF bigEndian THEN Reverse(LEBytes(n, size)) ELSE LEBytes(n, size)

RECURSIVE LEValue(_)
LEValue(bytes) ==
  IF bytes = <<>> THEN 0 ELSE bytes[1] + BYTE_MOD * LEValue(Tail(bytes))

\* reading an unsigned integer back from its object representation
NativeValue(bytes) == IF bigEndian THEN LEValue(Reverse(bytes)) ELSE LEValue(bytes)

Take(buf, n) == [i \in 1..n |-> buf[i]]
Drop(buf, n) == [i \in 1..(Len(buf) - n) |-> buf[n + i]]

(***************************************************************************)
(* Bucket blob accessors (src/MegaHash.h 173-203).  bucketData is the      *)
(* blob [keyLength][key][contentLength][content].                          *)
(***************************************************************************)
bucketGetKeyLength(bucketData) == NativeValue(Take(bucketData, BH_KLEN_SIZE))

\* mutant: the key pointer without the length header skipped
bucketGetKey_NoOffset(bucketData) == bucketData

bucketGetKey(bucketData) == Drop(bucketData, BH_KLEN_SIZE)

\* memcmp(a, b, n) = 0
MemEq(a, b, n) == \A i \in 1..n : a[i] = b[i]

\* mutant: only the lengths are compared
bucketKeyEquals_LengthOnly(bucketData, key, keyLength) ==
  keyLength = bucketGetKeyLength(bucketData)

\* mutant: the result of memcmp returned without the negation
bucketKeyEquals_NoNegation(bucketData, key, keyLength) ==
  IF keyLength # bucketGetKeyLength(bucketData) THEN FALSE
  ELSE ~MemEq(key, Drop(bucketData, BH_KLEN_SIZE), keyLength)

bucketKeyEquals(bucketData, key, keyLength) ==
  LET bucketKeyLength == bucketGetKeyLength(bucketData)
      bucketKey == Drop(bucketData, BH_KLEN_SIZE)
  IN  IF keyLength # bucketKeyLength THEN FALSE
      ELSE MemEq(key, bucketKey, keyLength)

\* mutant: the content length read right behind the key length, the key not skipped
bucketGetContentLength_NoKey(bucketData) ==
  NativeValue(Take(Drop(bucketData, BH_KLEN_SIZE), BH_LEN_SIZE))

bucketGetContentLength(bucketData) ==
  LET keyLength == bucketGetKeyLength(bucketData)
      tempCL == Drop(bucketData, BH_KLEN_SIZE + keyLength)
  IN  NativeValue(Take(tempCL, BH_LEN_SIZE))

\* mutant: the content pointer without the content length header skipped
bucketGetContent_NoLenHeader(bucketData) ==
  Drop(bucketData, BH_KLEN_SIZE + bucketGetKeyLength(bucketData))

bucketGetContent(bucketData) ==
  LET keyLength == bucketGetKeyLength(bucketData)
  IN  Drop(bucketData, BH_KLEN_SIZE + keyLength + BH_LEN_SIZE)

(***************************************************************************)
(* digestKey (src/MegaHash.h 205-223).  A uint32_t is kept as two 16-bit   *)
(* halves so that the arithmetic wraps at 2^32 exactly as in the code.     *)
(***************************************************************************)
U32(hi, lo) == [hi |-> hi, lo |-> lo]

\* hash << 5
Shl5(h) == U32((h.hi * 32 + (h.lo * 32) \div KLEN_MOD) % KLEN_MOD, (h.lo * 32) % KLEN_MOD)

\* a + b, and a + byte, modulo 2^32
Add32(a, b) ==
  U32((a.hi + b.hi + (a.lo + b.lo) \div KLEN_MOD) % KLEN_MOD, (a.lo + b.lo) % KLEN_MOD)

\* 5381
HashSeed == U32(0, 5381)

RECURSIVE Djb2(_, _, _)
Djb2(key, keyLength, i) ==
  IF i = 0 THEN HashSeed
  ELSE LET hash == Djb2(key, keyLength, i - 1)
       IN  Add32(Add32(Shl5(hash), hash), U32(0, key[i]))

\* ((uint32_t *)digest)[0] = hash : the four bytes of hash in memory order
HashBytes(hash) ==
  LET le == <<hash.lo % BYTE_MOD, hash.lo \div BYTE_MOD, hash.hi % BYTE_MOD, hash.hi \div BYTE_MOD>>
  IN  IF bigEndian THEN Reverse(le) ELSE le

\* mutant: the low nibbles written to digest[0..3], the high ones to digest[4..7]
digestKey_LowFirst(key, keyLength) ==
  LET hash == Djb2(key, keyLength, keyLength)
      mem == HashBytes(hash)
  IN  [i \in 0..(BH_DIGEST_SIZE - 1) |->
         IF i < 4 THEN mem[i + 1] % 16 ELSE mem[i - 3] \div 16]

digestKey(key, keyLength) ==
  LET hash == Djb2(key, keyLength, keyLength)
      mem == HashBytes(hash)
  IN  [i \in 0..(BH_DIGEST_SIZE - 1) |->
         IF i < 4 THEN mem[i + 1] \div 16 ELSE mem[i - 3] % 16]

(***************************************************************************)
(* Data layout: Stats, Response, Index, Bucket (src/MegaHash.h 48-113).    *)
(***************************************************************************)
Stats == [numKeys |-> 0, indexSize |-> 0, metaSize |-> 0, dataSize |-> 0]

Response == [result |-> 0, flags |-> 0, content |-> NULLPTR, contentLength |-> 0]

Index == [type |-> BH_SIG_INDEX, data |-> [idx \in 0..(BH_INDEX_SIZE - 1) |-> NULL]]

Bucket == [type |-> BH_SIG_BUCKET, flags |-> 0, data |-> NULLPTR, next |-> NULL]

(***************************************************************************)
(* Constructors and init() (src/MegaHash.h 124-156).  The arguments are    *)
(* unsigned char.                                                          *)
(***************************************************************************)
Hash0 == [maxBuckets |-> 16, reindexScatter |-> 1]

\* mutant: maxBuckets not raised to 1
Hash1_NoClamp(newMaxBuckets) == [maxBuckets |-> newMaxBuckets, reindexScatter |-> 1]

Hash1(newMaxBuckets) ==
  [maxBuckets |-> IF newMaxBuckets < 1 THEN 1 ELSE newMaxBuckets, reindexScatter |-> 1]

\* mutant: reindexScatter kept whatever the sum with maxBuckets is
Hash2_NoSumCheck(newMaxBuckets, newReindexScatter) ==
  [maxBuckets |-> IF newMaxBuckets < 1 THEN 1 ELSE newMaxBuckets,
   reindexScatter |-> IF newReindexScatter < 1 THEN 1 ELSE newReindexScatter]

Hash2(newMaxBuckets, newReindexScatter) ==
  LET mb == IF newMaxBuckets < 1 THEN 1 ELSE newMaxBuckets
      rs == IF newReindexScatter < 1 THEN 1 ELSE newReindexScatter
  IN  [maxBuckets |-> mb, reindexScatter |-> IF mb + rs > 256 THEN 1 ELSE rs]

\* mutant: the root Index not counted in indexSize
init_NoIndexSize == [index |-> Index, stats |-> Stats]

\* init(): index = new Index(); stats = new Stats(); stats->indexSize += sizeof(Index)
init == [index |-> Index, stats |-> [Stats EXCEPT !.indexSize = @ + SizeofIndex]]

(***************************************************************************)
(* The inputs of the model.                                                *)
(***************************************************************************)
\* <<0, 33>> and <<1, 0>> have the same 32-bit hash (33*0 + 33 = 33*1 + 0), so
\* the same 8 digest symbols; <<187>> shares only their first symbol; the empty
\* key lies in another root slot and is a prefix of every key.
KeyList == << <<0, 33>>, <<1, 0>>, <<187>>, <<>>, <<0>>, <<1>> >>

FlagValues == {0}
\* the root slots clear(slice) is tried on
Slices == {0, 6, 15}

Keys == {KeyList[i] : i \in 1..NumKeys}
Values == {<<7>>, <<8, 9>>}

\* a caller's buffer of 65536 key bytes
LongKey == [i \in 1..KLEN_MOD |-> 0]

\* the key buffer and the length stated for it, of a call on a key of Keys
KeyArgs == {<<k, Len(k)>> : k \in Keys}

\* the calls of store tried: <<key, keyLength, content, flags>>, the last one with
\* a key of 65536 bytes
StoreArgs ==
  {<<ka[1], ka[2], v, f>> : ka \in KeyArgs, v \in Values, f \in FlagValues}
    \cup {<<LongKey, KLEN_MOD, <<7>>, 0>>}

\* the constructor calls tried: Hash(), Hash(0), Hash(2, 255)
Constructed == {Hash0, Hash1(0), Hash2(2, 255)}

\* conversion of an argument to BH_KLEN_T (uint16_t) at the call
ToKLEN(n) == n % KLEN_MOD

\* the call made last, with the table as it was when the call was made
Call(op, key, arg, content, flags, slice) ==
  [op |-> op, key |-> key, arg |-> arg, content |-> content, flags |-> flags,
   slice |-> slice, index |-> index, stats |-> stats]

(***************************************************************************)
(* fetch (declared src/MegaHash.h 160; spec.md 4.3).                       *)
(***************************************************************************)
RECURSIVE FindBucket(_, _, _)
\* the first bucket of the list whose key equals key, or NULL
FindBucket(bucket, key, keyLength) ==
  IF bucket = NULL THEN NULL
  ELSE IF bucketKeyEquals(bucket.data, key, keyLength) THEN bucket
  ELSE FindBucket(bucket.next, key, keyLength)

RECURSIVE LocateTag(_, _, _)
\* walk the digest path from tag: the slot content where the walk stops
LocateTag(tag, digest, digestIndex) ==
  IF tag # NULL /\ tag.type = BH_SIG_INDEX /\ digestIndex < BH_DIGEST_SIZE
  THEN LocateTag(tag.data[digest[digestIndex]], digest, digestIndex + 1)
  ELSE tag

\* fetch on the table rooted at root
fetchIn(root, key, keyLength) ==
  LET digest == digestKey(key, keyLength)
      tag == LocateTag(root, digest, 0)
      bucket == IF tag # NULL /\ tag.type = BH_SIG_BUCKET
                THEN FindBucket(tag, key, keyLength) ELSE NULL
  IN  IF bucket = NULL THEN Response
      ELSE [result |-> BH_OK, flags |-> bucket.flags,
            content |-> PtrTo(bucketGetContent(bucket.data)),
            contentLength |-> bucketGetContentLength(bucket.data)]

fetch(key, keyLength) == fetchIn(index, key, keyLength)

(***************************************************************************)
(* store and reindexing (declared src/MegaHash.h 159, 170; spec.md 4.2,    *)
(* 4.4).  digestIndex is the number of digest symbols consumed before the  *)
(* slot looked at, so a list hanging in a slot of the Index reached with   *)
(* digestIndex symbols sits at depth digestIndex + 1.                      *)
(***************************************************************************)
\* the blob [keyLength][key][contentLength][content]
Payload(key, keyLength, content, contentLength) ==
  NativeBytes(keyLength, BH_KLEN_SIZE) \o Take(key, keyLength)
    \o NativeBytes(contentLength, BH_LEN_SIZE) \o Take(content, contentLength)

RECURSIVE ChainLength(_)
ChainLength(bucket) == IF bucket = NULL THEN 0 ELSE 1 + ChainLength(bucket.next)

RECURSIVE AppendBucket(_, _)
\* walk to the last bucket of the list and link newBucket behind it
AppendBucket(bucket, newBucket) ==
  IF bucket = NULL THEN newBucket
  ELSE [bucket EXCEPT !.next = AppendBucket(bucket.next, newBucket)]

RECURSIVE ReplaceBucket(_, _, _, _, _)
\* the list with the data and flags of the bucket holding key replaced
ReplaceBucket(bucket, key, keyLength, payload, flags) ==
  IF bucketKeyEquals(bucket.data, key, keyLength)
  THEN [bucket EXCEPT !.data = payload, !.flags = flags]
  ELSE [bucket EXCEPT !.next = ReplaceBucket(bucket.next, key, keyLength, payload, flags)]

\* move one bucket into the list at slot digest[digestIndex] of the new Index
reindexBucket(bucket, newLevel, digestIndex) ==
  LET keyLength == bucketGetKeyLength(bucket.data)
      key == bucketGetKey(bucket.data)
      digest == digestKey(key, keyLength)
      ch == digest[digestIndex]
  IN  [newLevel EXCEPT !.data[ch] = AppendBucket(@, [bucket EXCEPT !.next = NULL])]

RECURSIVE ReindexList(_, _, _)
\* every bucket of the overlong list moved, in list order
ReindexList(bucket, newLevel, digestIndex) ==
  IF bucket = NULL THEN newLevel
  ELSE ReindexList(bucket.next, reindexBucket(bucket, newLevel, digestIndex), digestIndex)

RECURSIVE Reindex(_, _)
\* the overlong list at depth digestIndex becomes an Index keyed by
\* digest[digestIndex]; a sub-list that is itself overlong is reindexed in turn
\* while a further digest symbol exists
Reindex(bucket, digestIndex) ==
  LET moved == ReindexList(bucket, Index, digestIndex)
  IN  [moved EXCEPT !.data =
         [idx \in 0..(BH_INDEX_SIZE - 1) |->
            IF moved.data[idx] # NULL /\ ChainLength(moved.data[idx]) > maxBuckets
               /\ digestIndex + 1 < BH_DIGEST_SIZE
            THEN Reindex(moved.data[idx], digestIndex + 1)
            ELSE moved.data[idx]]]

\* the first occupied slot of an Index at or after idx, BH_INDEX_SIZE if none:
\* the slot loops of the tree walks pass over empty slots
NextSlot(level, idx) ==
  LET used == {i \in idx..(BH_INDEX_SIZE - 1) : level.data[i] # NULL}
  IN  IF used = {} THEN BH_INDEX_SIZE
      ELSE CHOOSE i \in used : \A j \in used : i <= j

RECURSIVE CountIndexes(_)
RECURSIVE CountIndexesFrom(_, _)
\* the number of Index nodes in the subtree of tag
CountIndexes(tag) ==
  IF tag = NULL \/ tag.type # BH_SIG_INDEX THEN 0 ELSE 1 + CountIndexesFrom(tag, NextSlot(tag, 0))
CountIndexesFrom(level, idx) ==
  IF idx = BH_INDEX_SIZE THEN 0
  ELSE CountIndexes(level.data[idx]) + CountIndexesFrom(level, NextSlot(level, idx + 1))

RECURSIVE StoreTag(_, _, _, _, _, _, _)
\* store below the Index level reached with digestIndex symbols consumed:
\* [tag: the new Index, result, old: the replaced blob, created: new Index nodes]
StoreTag(level, digest, digestIndex, key, keyLength, payload, flags) ==
  LET ch == digest[digestIndex]
      tag == level.data[ch]
      newBucket == [Bucket EXCEPT !.data = payload, !.flags = flags]
  IN  IF tag = NULL
      THEN [tag |-> [level EXCEPT !.data[ch] = newBucket], result |-> BH_ADD,
            old |-> NULLPTR, created |-> 0]
      ELSE IF tag.type = BH_SIG_INDEX
      THEN LET r == StoreTag(tag, digest, digestIndex + 1, key, keyLength, payload, flags)
           IN  [r EXCEPT !.tag = [level EXCEPT !.data[ch] = r.tag]]
      ELSE LET found == FindBucket(tag, key, keyLength)
           IN  IF found # NULL
               THEN [tag |-> [level EXCEPT !.data[ch] =
                                ReplaceBucket(tag, key, keyLength, payload, flags)],
                     result |-> BH_REPLACE, old |-> PtrTo(found.data), created |-> 0]
               ELSE LET list == AppendBucket(tag, newBucket)
                        re == IF ChainLength(list) > maxBuckets
                                 /\ digestIndex + 1 < BH_DIGEST_SIZE
                              THEN Reindex(list, digestIndex + 1)
                              ELSE list
                    IN  [tag |-> [level EXCEPT !.data[ch] = re], result |-> BH_ADD,
                         old |-> NULLPTR, created |-> CountIndexes(re)]

\* the fixed per-entry overhead: the Bucket and the two length headers
EntryMeta == SizeofBucket + BH_KLEN_SIZE + BH_LEN_SIZE

store(key, keyLength, content, contentLength, flags) ==
  LET digest == digestKey(key, keyLength)
      payload == Payload(key, keyLength, content, contentLength)
      r == StoreTag(index, digest, 0, key, keyLength, payload, flags)
      newStats ==
        IF r.result = BH_ADD
        THEN [numKeys |-> stats.numKeys + 1,
              indexSize |-> stats.indexSize + r.created * SizeofIndex,
              metaSize |-> stats.metaSize + EntryMeta,
              dataSize |-> stats.dataSize + keyLength + contentLength]
        ELSE [stats EXCEPT !.dataSize =
                @ + contentLength - bucketGetContentLength(r.old[1])]
  IN  [index |-> r.tag, stats |-> newStats,
       resp |-> [Response EXCEPT !.result = r.result, !.flags = flags,
                                 !.contentLength = contentLength]]

(***************************************************************************)
(* remove (declared src/MegaHash.h 161; spec.md 4.5).                      *)
(***************************************************************************)
RECURSIVE UnlinkBucket(_, _, _)
\* the list without the bucket holding key: predecessor relinked to successor
UnlinkBucket(bucket, key, keyLength) ==
  IF bucket = NULL THEN NULL
  ELSE IF bucketKeyEquals(bucket.data, key, keyLength) THEN bucket.next
  ELSE [bucket EXCEPT !.next = UnlinkBucket(bucket.next, key, keyLength)]

RECURSIVE RemoveTag(_, _, _, _, _)
\* mutant: an Index left without entries by the removal is freed and its slot cleared
RemoveTag_Collapse(level, digest, digestIndex, key, keyLength) ==
  LET ch == digest[digestIndex]
      tag == level.data[ch]
  IN  IF tag = NULL THEN [tag |-> level, removed |-> NULL]
      ELSE IF tag.type = BH_SIG_INDEX
      THEN LET r == RemoveTag(tag, digest, digestIndex + 1, key, keyLength)
           IN  [r EXCEPT !.tag = [level EXCEPT !.data[ch] =
                                    IF r.tag = Index THEN NULL ELSE r.tag]]
      ELSE [tag |-> [level EXCEPT !.data[ch] = UnlinkBucket(tag, key, keyLength)],
            removed |-> FindBucket(tag, key, keyLength)]

\* [tag: the Index level after the removal, removed: the unlinked bucket or NULL]
RemoveTag(level, digest, digestIndex, key, keyLength) ==
  LET ch == digest[digestIndex]
      tag == level.data[ch]
  IN  IF tag = NULL THEN [tag |-> level, removed |-> NULL]
      ELSE IF tag.type = BH_SIG_INDEX
      THEN LET r == RemoveTag(tag, digest, digestIndex + 1, key, keyLength)
           IN  [r EXCEPT !.tag = [level EXCEPT !.data[ch] = r.tag]]
      ELSE [tag |-> [level EXCEPT !.data[ch] = UnlinkBucket(tag, key, keyLength)],
            removed |-> FindBucket(tag, key, keyLength)]

remove(key, keyLength) ==
  LET digest == digestKey(key, keyLength)
      r == RemoveTag(index, digest, 0, key, keyLength)
  IN  IF r.removed = NULL
      THEN [index |-> index, stats |-> stats, resp |-> Response]
      ELSE [index |-> r.tag,
            stats |-> [numKeys |-> stats.numKeys - 1,
                       indexSize |-> stats.indexSize,
                       metaSize |-> stats.metaSize - EntryMeta,
                       dataSize |-> stats.dataSize - keyLength
                                      - bucketGetContentLength(r.removed.data)],
            resp |-> [Response EXCEPT !.result = BH_OK, !.flags = r.removed.flags,
                        !.contentLength = bucketGetContentLength(r.removed.data)]]

(***************************************************************************)
(* firstKey / nextKey / traverseTag (declared src/MegaHash.h 162, 163,     *)
(* 171; spec.md 4.6): depth first, slot 0 before slot 15, then list order. *)
(***************************************************************************)
RECURSIVE FirstBucket(_)
RECURSIVE FirstBucketFrom(_, _)
\* the first bucket in traversal order below tag, or NULL
FirstBucket(tag) ==
  IF tag = NULL THEN NULL
  ELSE IF tag.type = BH_SIG_BUCKET THEN tag
  ELSE FirstBucketFrom(tag, NextSlot(tag, 0))
\* ... below slots idx..15 of an Index
FirstBucketFrom(level, idx) ==
  IF idx >= BH_INDEX_SIZE THEN NULL
  ELSE LET b == FirstBucket(level.data[idx])
       IN  IF b # NULL THEN b ELSE FirstBucketFrom(level, NextSlot(level, idx + 1))

RECURSIVE traverseTag(_, _, _, _, _)
\* re-walk the digest path of key: [located: key was found on its path,
\* bucket: the bucket after it in traversal order, or NULL]
traverseTag(tag, key, keyLength, digest, digestIndex) ==
  IF tag = NULL THEN [located |-> FALSE, bucket |-> NULL]
  ELSE IF tag.type = BH_SIG_BUCKET
  THEN LET b == FindBucket(tag, key, keyLength)
       IN  IF b = NULL THEN [located |-> FALSE, bucket |-> NULL]
           ELSE [located |-> TRUE, bucket |-> b.next]
  ELSE LET ch == digest[digestIndex]
           r == traverseTag(tag.data[ch], key, keyLength, digest, digestIndex + 1)
       IN  IF ~r.located \/ r.bucket # NULL THEN r
           ELSE [located |-> TRUE, bucket |-> FirstBucketFrom(tag, NextSlot(tag, ch + 1))]

\* the Response carrying the key of a bucket
KeyResponse(bucket) ==
  IF bucket = NULL THEN Response
  ELSE LET keyLength == bucketGetKeyLength(bucket.data)
       IN  [result |-> BH_OK, flags |-> bucket.flags,
            content |-> PtrTo(Take(bucketGetKey(bucket.data), keyLength)),
            contentLength |-> keyLength]

firstKeyIn(root) == KeyResponse(FirstBucket(root))

nextKeyIn(root, key, keyLength) ==
  KeyResponse(traverseTag(root, key, keyLength, digestKey(key, keyLength), 0).bucket)

firstKey == firstKeyIn(index)

nextKey(key, keyLength) == nextKeyIn(index, key, keyLength)

(***************************************************************************)
(* clear / clear(slice) / clearTag (declared src/MegaHash.h 165-169;       *)
(* spec.md 4.7).                                                           *)
(***************************************************************************)
RECURSIVE clearTag(_, _)
RECURSIVE ClearSlots(_, _, _)
\* free the subtree of tag: the statistics st less its contribution
clearTag(tag, st) ==
  IF tag = NULL THEN st
  ELSE IF tag.type = BH_SIG_BUCKET
  THEN clearTag(tag.next,
         [numKeys |-> st.numKeys - 1,
          indexSize |-> st.indexSize,
          metaSize |-> st.metaSize - EntryMeta,
          dataSize |-> st.dataSize - bucketGetKeyLength(tag.data)
                         - bucketGetContentLength(tag.data)])
  ELSE ClearSlots(tag, NextSlot(tag, 0), [st EXCEPT !.indexSize = @ - SizeofIndex])
ClearSlots(level, idx, st) ==
  IF idx = BH_INDEX_SIZE THEN st
  ELSE ClearSlots(level, NextSlot(level, idx + 1), clearTag(level.data[idx], st))

\* clear(): everything reachable from the root is freed, then the root is
\* reinitialised as init() sets it up
clear == init

\* clear(slice): only the subtree of root slot slice is freed
clearSlice(slice) ==
  [index |-> [index EXCEPT !.data[slice] = NULL],
   stats |-> clearTag(index.data[slice], stats)]

\* no caller buffer for digestKey and no traversal loop of a caller in progress
NoWalk == [phase |-> "none", order |-> <<>>, visited |-> <<>>, removed |-> {}]

\* the table after construction, followed on a little-endian build (the byte
\* order only permutes the digest symbols)
Init ==
  /\ \E h \in Constructed :
       /\ maxBuckets = h.maxBuckets
       /\ reindexScatter = h.reindexScatter
  /\ index = init.index
  /\ stats = init.stats
  /\ bigEndian = FALSE
  /\ resp = Response
  /\ last = Call("init", <<>>, 0, <<>>, 0, 0)
  /\ digestOut = NULLPTR
  /\ walk = NoWalk

\* store(key, keyLength, content, contentLength, flags): keyLength is converted to
\* BH_KLEN_T at the call, and the callee reads that many bytes of the buffer
Store ==
  \E a \in StoreArgs :
    \E r \in {store(Take(a[1], ToKLEN(a[2])), ToKLEN(a[2]), a[3], Len(a[3]), a[4])} :
      /\ index' = r.index
      /\ stats' = r.stats
      /\ resp' = r.resp
      /\ last' = Call("store", Take(a[1], ToKLEN(a[2])), a[2], a[3], a[4], 0)
      /\ UNCHANGED <<maxBuckets, reindexScatter, bigEndian, digestOut, walk>>

Fetch ==
  \E k \in Keys :
    /\ resp' = fetch(k, Len(k))
    /\ last' = Call("fetch", k, Len(k), <<>>, 0, 0)
    /\ UNCHANGED <<index, stats, maxBuckets, reindexScatter, bigEndian, digestOut, walk>>

Remove ==
  \E k \in Keys :
    \E r \in {remove(k, Len(k))} :
      /\ index' = r.index
      /\ stats' = r.stats
      /\ resp' = r.resp
      /\ last' = Call("remove", k, Len(k), <<>>, 0, 0)
      /\ UNCHANGED <<maxBuckets, reindexScatter, bigEndian, digestOut, walk>>

FirstKey ==
  /\ resp' = firstKey
  /\ last' = Call("firstKey", <<>>, 0, <<>>, 0, 0)
  /\ UNCHANGED <<index, stats, maxBuckets, reindexScatter, bigEndian, digestOut, walk>>

NextKey ==
  \E k \in Keys :
    /\ resp' = nextKey(k, Len(k))
    /\ last' = Call("nextKey", k, Len(k), <<>>, 0, 0)
    /\ UNCHANGED <<index, stats, maxBuckets, reindexScatter, bigEndian, digestOut, walk>>

\* clear() returns void: the caller's last Response is untouched
Clear ==
  /\ index' = clear.index
  /\ stats' = clear.stats
  /\ last' = Call("clear", <<>>, 0, <<>>, 0, 0)
  /\ UNCHANGED <<resp, maxBuckets, reindexScatter, bigEndian, digestOut, walk>>

ClearSlice ==
  \E slice \in Slices :
    \E r \in {clearSlice(slice)} :
      /\ index' = r.index
      /\ stats' = r.stats
      /\ last' = Call("clearSlice", <<>>, 0, <<>>, 0, slice)
      /\ UNCHANGED <<resp, maxBuckets, reindexScatter, bigEndian, digestOut, walk>>

Next == Store \/ Fetch \/ Remove \/ FirstKey \/ NextKey \/ Clear \/ ClearSlice

Spec == Init /\ [][Next]_vars

(***************************************************************************)
(* Reading the table independently of the digest walk, for the properties. *)
(***************************************************************************)
RECURSIVE Flatten(_)
RECURSIVE FlattenFrom(_, _)
\* every bucket below tag, slot 0 first, each list head first
Flatten(tag) ==
  IF tag = NULL THEN <<>>
  ELSE IF tag.type = BH_SIG_BUCKET THEN <<tag>> \o Flatten(tag.next)
  ELSE FlattenFrom(tag, NextSlot(tag, 0))
FlattenFrom(level, idx) ==
  IF idx = BH_INDEX_SIZE THEN <<>>
  ELSE Flatten(level.data[idx]) \o FlattenFrom(level, NextSlot(level, idx + 1))

\* the key bytes and the value bytes a blob holds, read by position
BlobKeyLength(data) ==
  IF bigEndian THEN data[2] + BYTE_MOD * data[1] ELSE data[1] + BYTE_MOD * data[2]
BlobKey(data) == SubSeq(data, BH_KLEN_SIZE + 1, BH_KLEN_SIZE + BlobKeyLength(data))
BlobValue(data) ==
  SubSeq(data, BH_KLEN_SIZE + BlobKeyLength(data) + BH_LEN_SIZE + 1, Len(data))

\* the keys below tag, in traversal order
FlattenKeys(tag) == LET b == Flatten(tag) IN [i \in 1..Len(b) |-> BlobKey(b[i].data)]

SeqToSet(q) == {q[i] : i \in 1..Len(q)}

\* key is held by some bucket of the table rooted at root
Stored(root, key) == key \in SeqToSet(FlattenKeys(root))

\* the number of Index nodes on the digest path of key, the root included
RECURSIVE PathDepth(_, _, _)
PathDepth(tag, digest, digestIndex) ==
  IF tag # NULL /\ tag.type = BH_SIG_INDEX /\ digestIndex < BH_DIGEST_SIZE
  THEN 1 + PathDepth(tag.data[digest[digestIndex]], digest, digestIndex + 1)
  ELSE 0
DepthIn(root, key) == PathDepth(root, digestKey(key, Len(key)), 0)

(***************************************************************************)
(* C1  Round trip: a fetch(k) directly after store(k, v) returns ok, with  *)
(* content equal to v byte for byte and contentLength = Len(v), whether    *)
(* the store added, replaced or reindexed.                                 *)
(***************************************************************************)
C1_RoundTrip ==
  last.op = "store" =>
    LET r == fetch(last.key, Len(last.key))
    IN  /\ r.result = BH_OK
        /\ r.content = PtrTo(last.content)
        /\ r.contentLength = Len(last.content)

\* a store that replaced a different value below a reindexed branch
C1_Witness ==
  /\ last.op = "store"
  /\ resp.result = BH_REPLACE
  /\ DepthIn(index, last.key) > 1
  /\ fetchIn(last.index, last.key, Len(last.key)).content # PtrTo(last.content)
  /\ fetch(last.key, Len(last.key)).content = PtrTo(last.content)

(***************************************************************************)
(* C2  Replace semantics: store(k, v) returns replaced iff k was stored    *)
(* and added iff it was not; replaced leaves numKeys and makes the value   *)
(* v; added raises numKeys by exactly 1.                                   *)
(***************************************************************************)
C2_ReplaceSemantics ==
  last.op = "store" =>
    LET was == Stored(last.index, last.key)
    IN  /\ resp.result = (IF was THEN BH_REPLACE ELSE BH_ADD)
        /\ stats.numKeys = last.stats.numKeys + (IF was THEN 0 ELSE 1)
        /\ Len(Flatten(index)) = Len(Flatten(last.index)) + (IF was THEN 0 ELSE 1)
        /\ \E i \in 1..Len(Flatten(index)) :
             /\ BlobKey(Flatten(index)[i].data) = last.key
             /\ BlobValue(Flatten(index)[i].data) = last.content

\* a store of a key already stored with another value, in a list of two
C2_Witness ==
  /\ last.op = "store"
  /\ resp.result = BH_REPLACE
  /\ stats.numKeys = last.stats.numKeys
  /\ stats.numKeys >= 2
  /\ fetchIn(last.index, last.key, Len(last.key)).content # PtrTo(last.content)

(***************************************************************************)
(* C3  Remove then fetch: where k is stored, remove(k) returns ok and the  *)
(* fetch(k) that follows returns the error status with null content and    *)
(* length 0, wherever k sits.                                              *)
(***************************************************************************)
C3_RemoveThenFetch ==
  (last.op = "remove" /\ Stored(last.index, last.key)) =>
    /\ resp.result = BH_OK
    /\ fetch(last.key, Len(last.key)) = Response
    /\ ~Stored(index, last.key)

\* the removed key was the tail of a list of two at the last digest level
C3_Witness ==
  /\ last.op = "remove"
  /\ resp.result = BH_OK
  /\ DepthIn(last.index, last.key) = BH_DIGEST_SIZE
  /\ LET list == LocateTag(last.index, digestKey(last.key, Len(last.key)), 0)
     IN  ChainLength(list) = 2 /\ BlobKey(list.next.data) = last.key
  /\ fetch(last.key, Len(last.key)).result = BH_ERR

(***************************************************************************)
(* C4  Iteration completeness: firstKey() and then nextKey(previous key)   *)
(* until an error result give a finite sequence holding every live key     *)
(* exactly once and no other key, in depth-first ascending-slot order and  *)
(* then list order; on an empty table firstKey() returns an error result.  *)
(***************************************************************************)
RECURSIVE IterateFrom(_, _, _)
\* the keys returned from Response r on; "more" when fuel calls did not end it
IterateFrom(root, r, fuel) ==
  IF r.result = BH_ERR THEN <<>>
  ELSE IF fuel = 0 THEN <<"more">>
  ELSE <<r.content[1]>> \o IterateFrom(root, nextKeyIn(root, r.content[1], r.contentLength), fuel - 1)

Iterate(root) == IterateFrom(root, firstKeyIn(root), Len(Flatten(root)) + 1)

NoDuplicates(q) == \A i, j \in 1..Len(q) : q[i] = q[j] => i = j

C4_IterationComplete ==
  LET keys == Iterate(index)
  IN  /\ keys = FlattenKeys(index)
      /\ NoDuplicates(keys)
      /\ SeqToSet(keys) = {k \in Keys : fetch(k, Len(k)).result = BH_OK}
      /\ Len(keys) = stats.numKeys
      /\ (stats.numKeys = 0 => firstKey = Response)

\* three live keys, some below a reindexed branch, after a removal
C4_Witness ==
  /\ Len(Iterate(index)) = 3
  /\ CountIndexes(index) > 1
  /\ last.op = "remove"
  /\ resp.result = BH_OK

(***************************************************************************)
(* C5  Bound enforcement: a store whose key length is 65536 returns an     *)
(* error status and leaves the table contents and all four statistics      *)
(* counters unchanged; the length is not wrapped into the 16-bit field.    *)
(***************************************************************************)
C5_BoundEnforced ==
  (last.op = "store" /\ last.arg >= KLEN_MOD) =>
    /\ resp.result = BH_ERR
    /\ index = last.index
    /\ stats = last.stats

(***************************************************************************)
(* C6  Reindexing preserves content: when a store of a new key makes a     *)
(* list exceed maxBuckets and the list becomes an Index (cascades          *)
(* included), every key stored before and the new key fetch afterwards     *)
(* with exactly their values, and numKeys is the previous count plus one.  *)
(***************************************************************************)
\* the list the digest walk of the last call's key ended at, before the call
ListBefore == LocateTag(last.index, digestKey(last.key, Len(last.key)), 0)

\* the last call stored a new key behind a list that thereby exceeds maxBuckets
\* while a further digest symbol exists
Overflowed ==
  /\ last.op = "store"
  /\ ~Stored(last.index, last.key)
  /\ ListBefore # NULL
  /\ ChainLength(ListBefore) + 1 > maxBuckets
  /\ DepthIn(last.index, last.key) < BH_DIGEST_SIZE

C6_ReindexPreserves ==
  Overflowed =>
    /\ DepthIn(index, last.key) > DepthIn(last.index, last.key)
    /\ \A k \in SeqToSet(FlattenKeys(last.index)) :
         /\ fetchIn(last.index, k, Len(k)).result = BH_OK
         /\ fetch(k, Len(k)) = fetchIn(last.index, k, Len(k))
    /\ fetch(last.key, Len(last.key)).result = BH_OK
    /\ fetch(last.key, Len(last.key)).content = PtrTo(last.content)
    /\ stats.numKeys = last.stats.numKeys + 1
    /\ Len(Flatten(index)) = Len(Flatten(last.index)) + 1

\* a list of two with different values became an Index by the store of a third key
C6_Witness ==
  /\ Overflowed
  /\ ChainLength(ListBefore) = 2
  /\ BlobValue(ListBefore.data) # BlobValue(ListBefore.next.data)
  /\ CountIndexes(index) = CountIndexes(last.index) + 1
  /\ \A k \in SeqToSet(FlattenKeys(ListBefore)) : fetch(k, Len(k)).result = BH_OK

(***************************************************************************)
(* C7  Reindex depth.  As claimed: when a store makes the list at one trie *)
(* position exceed maxBuckets, the number of nested Index nodes at that    *)
(* position increases by exactly one as a result of that store.            *)
(***************************************************************************)
C7_DepthPlusOne ==
  Overflowed => DepthIn(index, last.key) = DepthIn(last.index, last.key) + 1

\* the number of leading digest symbols all the keys of the set share
CommonSymbols(keys) ==
  LET shared(n) == \A k1, k2 \in keys : \A i \in 0..(n - 1) :
                     digestKey(k1, Len(k1))[i] = digestKey(k2, Len(k2))[i]
  IN  CHOOSE n \in 0..BH_DIGEST_SIZE :
        shared(n) /\ (n = BH_DIGEST_SIZE \/ ~shared(n + 1))

Min(a, b) == IF a < b THEN a ELSE b

(***************************************************************************)
(* C7 as amended: the depth at that position increases by at least one     *)
(* level: by exactly one when the entries of the overlong list do not all  *)
(* share the next digest symbol, and otherwise (cascade) by one more for   *)
(* each further symbol all of them share, ending at depth 8 at the latest. *)
(***************************************************************************)
C7_DepthByCascade ==
  Overflowed =>
    LET before == DepthIn(last.index, last.key)
        after == DepthIn(index, last.key)
        cs == CommonSymbols(SeqToSet(FlattenKeys(ListBefore)) \cup {last.key})
    IN  /\ after >= before + 1
        /\ after = Min(cs + 1, BH_DIGEST_SIZE)
        /\ (cs = before => after = before + 1)
        /\ CountIndexes(index) = CountIndexes(last.index) + (after - before)

\* a reindexing that does not cascade: the depth went from 1 to 2
C7_Witness ==
  /\ Overflowed
  /\ DepthIn(last.index, last.key) = 1
  /\ DepthIn(index, last.key) = 2
  /\ CountIndexes(index) = CountIndexes(last.index) + 1

(***************************************************************************)
(* C8  Chain-length bound: after every operation every list for which an   *)
(* unused digest symbol still exists has at most maxBuckets entries; only  *)
(* lists at the last digest level may be longer.                           *)
(***************************************************************************)
RECURSIVE ChainsBounded(_, _)
\* depth is the number of digest symbols consumed to reach tag
ChainsBounded(tag, depth) ==
  IF tag = NULL THEN TRUE
  ELSE IF tag.type = BH_SIG_BUCKET
  THEN depth = BH_DIGEST_SIZE \/ ChainLength(tag) <= maxBuckets
  ELSE \A idx \in 0..(BH_INDEX_SIZE - 1) : ChainsBounded(tag.data[idx], depth + 1)

C8_ChainBound == ChainsBounded(index, 0)

\* a list at the last digest level longer than maxBuckets, beside a full list above it
C8_Witness ==
  /\ \E k \in Keys :
       /\ DepthIn(index, k) = BH_DIGEST_SIZE
       /\ ChainLength(LocateTag(index, digestKey(k, Len(k)), 0)) > maxBuckets
  /\ \E k \in Keys :
       /\ DepthIn(index, k) < BH_DIGEST_SIZE
       /\ ChainLength(LocateTag(index, digestKey(k, Len(k)), 0)) = maxBuckets

RECURSIVE PayloadBytes(_)
\* key bytes plus value bytes of the buckets of a sequence
PayloadBytes(buckets) ==
  IF buckets = <<>> THEN 0
  ELSE Len(Head(buckets).data) - BH_KLEN_SIZE - BH_LEN_SIZE + PayloadBytes(Tail(buckets))

C10_PartialClearFrame ==
  (last.op = "clearSlice" /\ last.slice \in 0..(BH_INDEX_SIZE - 1)) =>
    LET freed == last.index.data[last.slice]
        gone == Flatten(freed)
    IN  /\ \A k \in Keys :
             IF digestKey(k, Len(k))[0] = last.slice
             THEN fetch(k, Len(k)) = Response
             ELSE fetch(k, Len(k)) = fetchIn(last.index, k, Len(k))
        /\ SeqToSet(FlattenKeys(last.index)) \ SeqToSet(FlattenKeys(index))
             = {k \in SeqToSet(FlattenKeys(last.index)) : digestKey(k, Len(k))[0] = last.slice}
        /\ \A s \in 0..(BH_INDEX_SIZE - 1) :
             index.data[s] = (IF s = last.slice THEN NULL ELSE last.index.data[s])
        /\ stats.numKeys = last.stats.numKeys - Len(gone)
        /\ stats.indexSize = last.stats.indexSize - CountIndexes(freed) * SizeofIndex
        /\ stats.metaSize = last.stats.metaSize - Len(gone) * EntryMeta
        /\ stats.dataSize = last.stats.dataSize - PayloadBytes(gone)

\* clear(s) freed an Index with three keys below it and left a key in another slot
C10_Witness ==
  /\ last.op = "clearSlice"
  /\ CountIndexes(last.index.data[last.slice]) >= 1
  /\ Len(Flatten(last.index.data[last.slice])) = 3
  /\ stats.numKeys = 1
  /\ \E k \in Keys : fetch(k, Len(k)).result = BH_OK

C12_NextKeyAbsent ==
  last.op = "nextKey" =>
    LET keys == FlattenKeys(index)
    IN  /\ (~Stored(index, last.key) => resp = Response)
        /\ (keys # <<>> /\ last.key = keys[Len(keys)] => resp = Response)
        /\ index = last.index

\* nextKey of a key that is not stored while its digest path ends at a list of
\* other keys and the table holds keys behind that list
C12_Witness ==
  /\ last.op = "nextKey"
  /\ ~Stored(index, last.key)
  /\ LocateTag(index, digestKey(last.key, Len(last.key)), 0) # NULL
  /\ DepthIn(index, last.key) >= 2
  /\ Len(Flatten(index)) >= 3
  /\ resp.result = BH_ERR

(***************************************************************************)
(* A caller's traversal loop: firstKey(), then nextKey(the key returned    *)
(* last) until an error result, with removals of other keys between the    *)
(* calls.  walk.order is the key order when the loop starts, walk.visited  *)
(* the keys returned so far, walk.removed the pairs <<k, n>> of a key      *)
(* removed when n keys had been returned.                                  *)
(***************************************************************************)
\* the table is filled before the loop starts
WalkStore ==
  /\ walk.phase = "none"
  /\ \E k \in Keys :
       \E r \in {store(k, Len(k), <<7>>, 1, 0)} :
         /\ index' = r.index
         /\ stats' = r.stats
         /\ resp' = r.resp
         /\ last' = Call("store", k, Len(k), <<7>>, 0, 0)
         /\ UNCHANGED <<maxBuckets, reindexScatter, bigEndian, digestOut, walk>>

WalkFirst ==
  /\ walk.phase = "none"
  /\ resp' = firstKey
  /\ last' = Call("firstKey", <<>>, 0, <<>>, 0, 0)
  /\ walk' = [phase |-> IF firstKey.result = BH_ERR THEN "done" ELSE "going",
              order |-> FlattenKeys(index),
              visited |-> IF firstKey.result = BH_ERR THEN <<>> ELSE <<firstKey.content[1]>>,
              removed |-> {}]
  /\ UNCHANGED <<index, stats, maxBuckets, reindexScatter, bigEndian, digestOut>>

WalkNext ==
  /\ walk.phase = "going"
  /\ LET k == walk.visited[Len(walk.visited)]
     IN  \E r \in {nextKey(k, Len(k))} :
           /\ resp' = r
           /\ last' = Call("nextKey", k, Len(k), <<>>, 0, 0)
           /\ walk' = IF r.result = BH_ERR
                      THEN [walk EXCEPT !.phase = "done"]
                      ELSE [walk EXCEPT !.visited = Append(@, r.content[1])]
  /\ UNCHANGED <<index, stats, maxBuckets, reindexScatter, bigEndian, digestOut>>

\* a key other than the one the loop resumes from is removed
WalkRemove ==
  /\ walk.phase = "going"
  /\ \E k \in Keys \ {walk.visited[Len(walk.visited)]} :
       \E r \in {remove(k, Len(k))} :
         /\ index' = r.index
         /\ stats' = r.stats
         /\ resp' = r.resp
         /\ last' = Call("remove", k, Len(k), <<>>, 0, 0)
         /\ walk' = IF r.resp.result = BH_OK
                    THEN [walk EXCEPT !.removed = @ \cup {<<k, Len(walk.visited)>>}]
                    ELSE walk
  /\ UNCHANGED <<maxBuckets, reindexScatter, bigEndian, digestOut>>

WalkSteps == WalkStore \/ WalkFirst \/ WalkNext \/ WalkRemove

SpecWalk == Init /\ [][WalkSteps]_vars

\* the position of x in the sequence q
Pos(q, x) == CHOOSE i \in 1..Len(q) : q[i] = x

(***************************************************************************)
(* C13  Iteration tolerates removals: a traversal during which keys other  *)
(* than the one resumed from are removed returns no key twice, returns no  *)
(* key that was removed before it was reached, returns its keys in the     *)
(* relative order of the uninterrupted traversal, cannot return more keys  *)
(* than the table held (so it ends), and when it has ended it has returned *)
(* every key that stayed live throughout.                                  *)
(***************************************************************************)
C13_WalkTolerant ==
  walk.phase # "none" =>
    LET v == walk.visited
        gone == {p[1] : p \in walk.removed}
    IN  /\ NoDuplicates(v)
        /\ Len(v) <= Len(walk.order)
        /\ \A i \in 1..Len(v) : v[i] \in SeqToSet(walk.order)
        /\ \A i, j \in 1..Len(v) : i < j => Pos(walk.order, v[i]) < Pos(walk.order, v[j])
        /\ \A i \in 1..Len(v) : \A p \in walk.removed : p[1] = v[i] => p[2] >= i
        /\ walk.phase = "done" => SeqToSet(walk.order) \ gone \subseteq SeqToSet(v)
        /\ walk.phase = "done" => SeqToSet(FlattenKeys(index)) = SeqToSet(walk.order) \ gone

\* a finished traversal of a reindexed table during which a key not yet reached
\* and a key already returned were removed
C13_Witness ==
  /\ walk.phase = "done"
  /\ Len(walk.visited) >= 3
  /\ CountIndexes(index) >= 2
  /\ \E p \in walk.removed : p[1] \notin SeqToSet(walk.visited)
  /\ \E p \in walk.removed : p[1] \in SeqToSet(walk.visited)

(***************************************************************************)
(* The three constructors applied to every pair of unsigned char           *)
(* arguments (src/MegaHash.h 124-146).                                     *)
(***************************************************************************)
\* the values of an unsigned char
UChar == 0..(BYTE_MOD - 1)

\* storage for a Hash whose constructor has not run yet: the fields are written by
\* the constructor before anything reads them
HashNew ==
  /\ maxBuckets = 0
  /\ reindexScatter = 0
  /\ index = NULL
  /\ stats = Stats
  /\ bigEndian = FALSE
  /\ resp = Response
  /\ last = Call("new", <<>>, <<>>, <<>>, 0, 0)
  /\ digestOut = NULLPTR
  /\ walk = NoWalk

\* the table a constructor leaves: its body h, then init()
ConstructedBy(h, name, args) ==
  [maxBuckets |-> h.maxBuckets, reindexScatter |-> h.reindexScatter,
   index |-> init.index, stats |-> init.stats,
   last |-> Call(name, <<>>, args, <<>>, 0, 0)]

ConstructHash0 ==
  /\ last.op = "new"
  /\ \E t \in {ConstructedBy(Hash0, "Hash0", <<>>)} :
       /\ maxBuckets' = t.maxBuckets
       /\ reindexScatter' = t.reindexScatter
       /\ index' = t.index
       /\ stats' = t.stats
       /\ last' = t.last
  /\ UNCHANGED <<bigEndian, resp, digestOut, walk>>

ConstructHash1 ==
  /\ last.op = "new"
  /\ \E a \in UChar :
       \E t \in {ConstructedBy(Hash1(a), "Hash1", <<a>>)} :
         /\ maxBuckets' = t.maxBuckets
         /\ reindexScatter' = t.reindexScatter
         /\ index' = t.index
         /\ stats' = t.stats
         /\ last' = t.last
  /\ UNCHANGED <<bigEndian, resp, digestOut, walk>>

ConstructHash2 ==
  /\ last.op = "new"
  /\ \E a, b \in UChar :
       \E t \in {ConstructedBy(Hash2(a, b), "Hash2", <<a, b>>)} :
         /\ maxBuckets' = t.maxBuckets
         /\ reindexScatter' = t.reindexScatter
         /\ index' = t.index
         /\ stats' = t.stats
         /\ last' = t.last
  /\ UNCHANGED <<bigEndian, resp, digestOut, walk>>

Constructors == ConstructHash0 \/ ConstructHash1 \/ ConstructHash2

SpecHash == HashNew /\ [][Constructors]_vars

Max(a, b) == IF a > b THEN a ELSE b

(***************************************************************************)
(* C14  Constructor normalisation: for all arguments in 0..255 the table   *)
(* has maxBuckets = max(newMaxBuckets, 1), reindexScatter >= 1 and         *)
(* maxBuckets + reindexScatter <= 256, reindexScatter being the argument   *)
(* raised to at least 1 unless that sum would exceed 256, and then 1; the  *)
(* constructor without arguments gives 16 and 1, the one with one argument *)
(* gives reindexScatter 1.                                                 *)
(***************************************************************************)
C14_ConstructorNormalised ==
  /\ last.op = "Hash0" => maxBuckets = 16 /\ reindexScatter = 1
  /\ last.op = "Hash1" => maxBuckets = Max(last.arg[1], 1) /\ reindexScatter = 1
  /\ last.op = "Hash2" =>
       /\ maxBuckets = Max(last.arg[1], 1)
       /\ reindexScatter =
            (IF Max(last.arg[1], 1) + Max(last.arg[2], 1) > 256 THEN 1
             ELSE Max(last.arg[2], 1))
  /\ last.op \in {"Hash0", "Hash1", "Hash2"} =>
       /\ maxBuckets \in 1..255
       /\ reindexScatter >= 1
       /\ maxBuckets + reindexScatter <= 256

\* Hash(2, 255): the sum 257 exceeds 256 and reindexScatter is reset to 1
C14_Witness ==
  /\ last.op = "Hash2"
  /\ last.arg = <<2, 255>>
  /\ maxBuckets = 2
  /\ reindexScatter = 1

(***************************************************************************)
(* C15  Branch nodes are never collapsed by remove: a remove leaves every  *)
(* Index node where it was, turns no Index slot back into a list and       *)
(* leaves indexSize as it was, also when it empties the last list below an *)
(* Index that reindexing created; the number of Index nodes goes down only *)
(* by clear() and clear(slice).                                            *)
(***************************************************************************)
RECURSIVE IndexShape(_)
\* the Index nodes below tag with their slots, lists and empty slots left out
IndexShape(tag) ==
  IF tag # NULL /\ tag.type = BH_SIG_INDEX
  THEN [type |-> BH_SIG_INDEX,
        data |-> [idx \in 0..(BH_INDEX_SIZE - 1) |-> IndexShape(tag.data[idx])]]
  ELSE NULL

C15_NoCollapse ==
  /\ last.op = "remove" =>
       /\ IndexShape(index) = IndexShape(last.index)
       /\ CountIndexes(index) = CountIndexes(last.index)
       /\ stats.indexSize = last.stats.indexSize
  /\ last.op \notin {"init", "clear", "clearSlice"} =>
       CountIndexes(index) >= CountIndexes(last.index)

\* the remove that emptied the table left the Index nodes made by reindexing
C15_Witness ==
  /\ last.op = "remove"
  /\ resp.result = BH_OK
  /\ Len(Flatten(last.index)) = 1
  /\ Len(Flatten(index)) = 0
  /\ DepthIn(index, last.key) >= 2
  /\ stats.indexSize = CountIndexes(index) * SizeofIndex

(***************************************************************************)
(* C16  Routing: every entry stored below slot s of a branch node at depth *)
(* d has a key whose digest symbol d is s, so that a lookup that follows   *)
(* the digest of a stored key walks to the list holding it.                *)
(***************************************************************************)
RECURSIVE Routed(_, _)
\* every entry below tag has the digest symbols path, path being the slots
\* taken from the root down to tag
Routed(tag, path) ==
  IF tag = NULL THEN TRUE
  ELSE IF tag.type = BH_SIG_BUCKET
  THEN LET key == BlobKey(tag.data)
           digest == digestKey(key, Len(key))
       IN  /\ \A d \in 0..(Len(path) - 1) : digest[d] = path[d + 1]
           /\ Routed(tag.next, path)
  ELSE \A s \in 0..(BH_INDEX_SIZE - 1) : Routed(tag.data[s], Append(path, s))

\* C16: in every reachable table each entry lies on the digest path of its
\* key, at every depth, and the walk along the digest of a stored key ends
\* at the list that holds it
C16_Routing ==
  /\ Routed(index, <<>>)
  /\ \A k \in SeqToSet(FlattenKeys(index)) : fetch(k, Len(k)).result = BH_OK

\* a store has just reindexed a list, and the table holds entries below
\* branch nodes of different depths, one of them below the root's child
C16_Witness ==
  /\ last.op = "store"
  /\ CountIndexes(index) > CountIndexes(last.index)
  /\ Len(Flatten(index)) >= 3
  /\ \E k1, k2 \in SeqToSet(FlattenKeys(index)) :
       /\ DepthIn(index, k1) >= 3
       /\ DepthIn(index, k2) < DepthIn(index, k1)

(***************************************************************************)
(* C17  Key uniqueness: no list of the table holds two entries with equal  *)
(* key bytes; store(k) finds the entry of k on the path of k and replaces  *)
(* it instead of appending a second one.                                   *)
(***************************************************************************)
RECURSIVE ChainKeys(_)
\* the keys of a list, head first
ChainKeys(bucket) ==
  IF bucket = NULL THEN <<>> ELSE <<BlobKey(bucket.data)>> \o ChainKeys(bucket.next)

RECURSIVE ChainsUnique(_)
\* no list below tag holds a key twice
ChainsUnique(tag) ==
  IF tag = NULL THEN TRUE
  ELSE IF tag.type = BH_SIG_BUCKET THEN NoDuplicates(ChainKeys(tag))
  ELSE \A s \in 0..(BH_INDEX_SIZE - 1) : ChainsUnique(tag.data[s])

\* C17: in every reachable table no list holds two entries with equal key
\* bytes, nor does the table as a whole, and a store of a key that is present
\* leaves the number of entries as it was
C17_KeyUnique ==
  /\ ChainsUnique(index)
  /\ NoDuplicates(FlattenKeys(index))
  /\ (last.op = "store" /\ Stored(last.index, last.key)) =>
       Len(Flatten(index)) = Len(Flatten(last.index))

\* a store replaced the value of a key that shares a list at the last digest
\* level with a key of the same digest
C17_Witness ==
  /\ last.op = "store"
  /\ resp.result = BH_REPLACE
  /\ DepthIn(index, last.key) = BH_DIGEST_SIZE
  /\ LET tag == LocateTag(index, digestKey(last.key, Len(last.key)), 0)
     IN  /\ ChainLength(tag) >= 2
         /\ last.key \in SeqToSet(ChainKeys(tag))

(***************************************************************************)
(* digestKey as a function of its arguments (src/MegaHash.h 205-223):      *)
(* calls of digestKey on keys of up to MaxDigestKeyLen bytes, on builds   *)
(* of either byte order, between stores that change the table.            *)
(***************************************************************************)
MaxDigestKeyLen == 4
DigestBytes == {0, 97, 255}

RECURSIVE ByteSeqs(_)
\* the byte sequences over DigestBytes of at most n bytes
ByteSeqs(n) ==
  IF n = 0 THEN {<<>>}
  ELSE LET shorter == ByteSeqs(n - 1)
       IN  shorter \cup {Append(q, b) : q \in {x \in shorter : Len(x) = n - 1},
                                         b \in DigestBytes}

DigestBuffers == ByteSeqs(MaxDigestKeyLen)

\* the table of the constructor without arguments, on a build of either byte
\* order
InitDigest ==
  /\ maxBuckets = Hash0.maxBuckets
  /\ reindexScatter = Hash0.reindexScatter
  /\ index = init.index
  /\ stats = init.stats
  /\ bigEndian \in BOOLEAN
  /\ resp = Response
  /\ last = Call("init", <<>>, 0, <<>>, 0, 0)
  /\ digestOut = NULLPTR
  /\ walk = NoWalk

\* digestKey(key, keyLength, digest): the caller's buffer digest is written
DigestKey ==
  \E key \in DigestBuffers :
    /\ digestOut' = digestKey(key, Len(key))
    /\ last' = Call("digestKey", key, Len(key), <<>>, 0, 0)
    /\ UNCHANGED <<index, stats, maxBuckets, reindexScatter, bigEndian, resp, walk>>

\* a store of one of the two keys of equal digest, between calls of digestKey
DigestStore ==
  \E k \in {KeyList[1], KeyList[2]} :
    \E r \in {store(k, Len(k), <<7>>, 1, 0)} :
      /\ index' = r.index
      /\ stats' = r.stats
      /\ resp' = r.resp
      /\ last' = Call("store", k, Len(k), <<7>>, 0, 0)
      /\ UNCHANGED <<maxBuckets, reindexScatter, bigEndian, digestOut, walk>>

DigestSteps == DigestKey \/ DigestStore

SpecDigest == InitDigest /\ [][DigestSteps]_vars

(***************************************************************************)
(* C18  Digest: h = 5381, then h = (h * 33 + byte) mod 2^32 over the key   *)
(* bytes in order; symbol i (i in 0..3) is the high nibble of byte i of h  *)
(* and symbol i + 4 its low nibble; the digest is a function of the key    *)
(* bytes alone.  The reference below computes h in base 256, least         *)
(* significant byte first, with carries.                                   *)
(***************************************************************************)
\* h * 33 + c on the four bytes of h, the carry out of byte 4 is dropped
RefStep(h, c) ==
  LET t1 == 33 * h[1] + c
      t2 == 33 * h[2] + t1 \div 256
      t3 == 33 * h[3] + t2 \div 256
      t4 == 33 * h[4] + t3 \div 256
  IN  <<t1 % 256, t2 % 256, t3 % 256, t4 % 256>>

\* the carry out of byte 4 of h * 33 + c: nonzero when the step wraps
RefCarry(h, c) ==
  (33 * h[4] + (33 * h[3] + (33 * h[2] + (33 * h[1] + c) \div 256) \div 256) \div 256) \div 256

RECURSIVE RefHash(_, _)
\* h after the first n bytes of key; 5381 = 21 * 256 + 5
RefHash(key, n) ==
  IF n = 0 THEN <<5, 21, 0, 0>> ELSE RefStep(RefHash(key, n - 1), key[n])

\* byte i of h as it lies in memory on the build
RefByte(h, i) == IF bigEndian THEN h[4 - i] ELSE h[i + 1]

RefDigest(key, n) ==
  [i \in 0..7 |-> IF i < 4 THEN RefByte(RefHash(key, n), i) \div 16
                  ELSE RefByte(RefHash(key, n), i - 4) % 16]

\* C18: the digest written by digestKey(key, keyLength) has 8 symbols in 0..15,
\* symbol i the high and symbol i + 4 the low nibble of byte i of
\* h = (...((5381 * 33 + key[1]) * 33 + key[2])...) mod 2^32, whatever the
\* table holds and whatever was computed before; for the empty key h = 5381
C18_Digest ==
  last.op = "digestKey" =>
    /\ DOMAIN digestOut = 0..(BH_DIGEST_SIZE - 1)
    /\ \A i \in DOMAIN digestOut : digestOut[i] \in 0..15
    /\ digestOut = RefDigest(last.key, last.arg)
    /\ digestOut = digestKey(Take(last.key, last.arg), last.arg)
    /\ last.arg = 0 =>
         digestOut = [i \in 0..7 |-> IF bigEndian THEN <<0, 0, 1, 0, 0, 0, 5, 5>>[i + 1]
                                     ELSE <<0, 1, 0, 0, 5, 5, 0, 0>>[i + 1]]

\* digestKey was called on a key of MaxDigestKeyLen bytes whose hash wrapped
\* past 2^32, with a table that holds two keys in one list
C18_Witness ==
  /\ last.op = "digestKey"
  /\ last.arg = MaxDigestKeyLen
  /\ \E n \in 1..last.arg : RefCarry(RefHash(last.key, n - 1), last.key[n]) > 0
  /\ \E i \in 0..3 : digestOut[i] # digestOut[i + 4]
  /\ Len(Flatten(index)) = 2

(***************************************************************************)
(* C20  Key independence: store(k, v) and remove(k) leave the result of    *)
(* fetch(k') of every other key k' as it was: status, value bytes, length  *)
(* and flags; fetch, firstKey and nextKey change neither the stored        *)
(* contents nor the statistics.                                            *)
(***************************************************************************)
\* the keys fetch is compared on: the keys of the calls and every key stored
\* before or after the call made last
OtherKeys == (Keys \cup SeqToSet(FlattenKeys(index)) \cup SeqToSet(FlattenKeys(last.index)))
               \ {last.key}

\* C20: after store(k, ...) and after remove(k), fetch(k') gives for every key
\* k' # k the Response it gave before the call, also when the call reindexed
\* the list of k', when k and k' have the same 8 digest symbols, and when k is
\* a prefix of k' or as long as k'; after fetch, firstKey and nextKey the tree
\* and the statistics are those before the call
C20_KeyIndependence ==
  /\ last.op \in {"store", "remove"} =>
       \A k \in OtherKeys : fetchIn(index, k, Len(k)) = fetchIn(last.index, k, Len(k))
  /\ last.op \in {"fetch", "firstKey", "nextKey"} =>
       /\ index = last.index
       /\ stats = last.stats

\* a store of k reindexed the list that held another key k' of the same
\* length and the same 8 digest symbols, down to the last digest level, where
\* both are fetched from one list
C20_Witness ==
  /\ last.op = "store"
  /\ \E k \in OtherKeys :
       /\ Len(k) = Len(last.key)
       /\ digestKey(k, Len(k)) = digestKey(last.key, Len(last.key))
       /\ fetchIn(last.index, k, Len(k)).result = BH_OK
       /\ fetch(k, Len(k)).result = BH_OK
       /\ fetch(last.key, Len(last.key)).result = BH_OK
       /\ DepthIn(last.index, k) < DepthIn(index, k)
       /\ DepthIn(index, k) = BH_DIGEST_SIZE

(***************************************************************************)
(* Allocation failure while reindexing (spec.md 4.2, 4.4, 7).  The store   *)
(* has appended the new entry; the allocation of the Index that is to take *)
(* an overlong list at depth failAt fails, the list is left as it is and   *)
(* the store returns an error result.  Reindexing above failAt has been    *)
(* done (failAt below the first reindexed depth: a cascade).               *)
(***************************************************************************)
RECURSIVE ReindexNoMem(_, _, _)
ReindexNoMem(bucket, digestIndex, failAt) ==
  IF digestIndex = failAt THEN bucket
  ELSE LET moved == ReindexList(bucket, Index, digestIndex)
       IN  [moved EXCEPT !.data =
              [idx \in 0..(BH_INDEX_SIZE - 1) |->
                 IF moved.data[idx] # NULL /\ ChainLength(moved.data[idx]) > maxBuckets
                    /\ digestIndex + 1 < BH_DIGEST_SIZE
                 THEN ReindexNoMem(moved.data[idx], digestIndex + 1, failAt)
                 ELSE moved.data[idx]]]

RECURSIVE StoreTagNoMem(_, _, _, _, _, _, _, _)
\* StoreTag with the failing allocation; failed: the allocation was attempted
StoreTagNoMem(level, digest, digestIndex, key, keyLength, payload, flags, failAt) ==
  LET ch == digest[digestIndex]
      tag == level.data[ch]
  IN  IF tag # NULL /\ tag.type = BH_SIG_INDEX
      THEN LET r == StoreTagNoMem(tag, digest, digestIndex + 1, key, keyLength,
                                  payload, flags, failAt)
           IN  [r EXCEPT !.tag = [level EXCEPT !.data[ch] = r.tag]]
      ELSE IF tag = NULL \/ FindBucket(tag, key, keyLength) # NULL
      THEN [tag |-> level, created |-> 0, failed |-> FALSE]
      ELSE LET list == AppendBucket(tag, [Bucket EXCEPT !.data = payload, !.flags = flags])
               overlong == ChainLength(list) > maxBuckets
                             /\ digestIndex + 1 < BH_DIGEST_SIZE
               re == IF overlong THEN ReindexNoMem(list, digestIndex + 1, failAt) ELSE list
           IN  [tag |-> [level EXCEPT !.data[ch] = re], created |-> CountIndexes(re),
                failed |-> overlong /\ re # Reindex(list, digestIndex + 1)]

storeNoMem(key, keyLength, content, contentLength, flags, failAt) ==
  LET r == StoreTagNoMem(index, digestKey(key, keyLength), 0, key, keyLength,
                         Payload(key, keyLength, content, contentLength), flags, failAt)
  IN  [index |-> r.tag, failed |-> r.failed,
       stats |-> [numKeys |-> stats.numKeys + 1,
                  indexSize |-> stats.indexSize + r.created * SizeofIndex,
                  metaSize |-> stats.metaSize + EntryMeta,
                  dataSize |-> stats.dataSize + keyLength + contentLength],
       resp |-> [Response EXCEPT !.result = BH_ERR]]

\* the stores that succeed, each with the content <<7>>
NoMemStore ==
  \E a \in {x \in StoreArgs : x[3] = <<7>>} :
    \E r \in {store(Take(a[1], ToKLEN(a[2])), ToKLEN(a[2]), a[3], Len(a[3]), a[4])} :
      /\ index' = r.index
      /\ stats' = r.stats
      /\ resp' = r.resp
      /\ last' = Call("store", Take(a[1], ToKLEN(a[2])), a[2], a[3], a[4], 0)
      /\ UNCHANGED <<maxBuckets, reindexScatter, bigEndian, digestOut, walk>>

\* a store, of the content <<8, 9>>, whose reindexing runs out of memory at
\* depth failAt
StoreNoMem ==
  \E a \in {x \in StoreArgs : x[3] = <<8, 9>>} :
    \E failAt \in 1..(BH_DIGEST_SIZE - 1) :
      \E r \in {storeNoMem(Take(a[1], ToKLEN(a[2])), ToKLEN(a[2]), a[3], Len(a[3]), a[4], failAt)} :
        /\ r.failed
        /\ index' = r.index
        /\ stats' = r.stats
        /\ resp' = r.resp
        /\ last' = Call("storeNoMem", Take(a[1], ToKLEN(a[2])), a[2], a[3], a[4], failAt)
        /\ UNCHANGED <<maxBuckets, reindexScatter, bigEndian, digestOut, walk>>

NoMemSteps == NoMemStore \/ StoreNoMem \/ Remove

SpecNoMem == Init /\ [][NoMemSteps]_vars

(***************************************************************************)
(* C19  Reindex failure is harmless: when the allocation of the new branch *)
(* node fails while a store reindexes an overlong list, the list is left   *)
(* intact though overlong, the key of the store is stored and fetched with *)
(* its value, no other key is lost, and the store returns a result.        *)
(***************************************************************************)
\* the list on the digest path of key
ListOf(root, key) == LocateTag(root, digestKey(key, Len(key)), 0)

\* the first n digest symbols of two keys agree
SamePrefix(k1, k2, n) ==
  \A d \in 0..(n - 1) : digestKey(k1, Len(k1))[d] = digestKey(k2, Len(k2))[d]

====
